---- MODULE Spec2Model ----
(***************************************************************************)
(* ResourceTypeAuthService (src/src/services/authService.resourceType.ts): *)
(* the session state (currentUser, authToken, the three localStorage       *)
(* keys), the constructor's restore, the asynchronous operations login,    *)
(* validateToken, refreshToken and logout, each cut at its awaits, and the *)
(* synchronous authorization queries.                                      *)
(*                                                                         *)
(* JavaScript values.  null/undefined and every other falsy value is the   *)
(* one value Null: the service reads storage entries, tokens and           *)
(* resourceType only through truthiness tests (token && userJson,          *)
(* !user?.resourceType, getItem(..) || undefined), so it cannot tell them   *)
(* apart.  A permission string is named by its text; Spelling gives the    *)
(* text as a sequence of pieces so that startsWith and includes are        *)
(* computed on the text, as the code computes them.                        *)
(***************************************************************************)
EXTENDS Naturals, Sequences, FiniteSets

\* ------------------------------------------------------------ bounds
\* Longest allowedPermissions array a principal carries.
MaxPerms == 2

\* ------------------------------------------------------------ values
Null == "<null>"

Truthy(v) == v # Null

\* String(null): what localStorage.setItem stores for a null value.
ToStorageString(v) == IF v = Null THEN "null" ELSE v

\* enum ResourceType
ResourceType ==
  {"User", "AgentWorkerService", "DataSource", "ComputeResource",
   "Integration", "Tool", "Dashboard", "Workflow"}

\* enum SecurityClearanceLevel (0: no clearance value, falsy)
Public == 1
Internal == 2
Confidential == 3
Restricted == 4
SecurityClearanceLevel == {Public, Internal, Confidential, Restricted}

\* An array element that is not a string (a JSON number).
NonString == "<number>"

\* The text of each permission string, in pieces.
Spelling(p) ==
  CASE p = "ui.dashboard.view"       -> <<"ui", ".", "dashboard", ".", "view">>
    [] p = "dashboard.read"          -> <<"dashboard", ".", "read">>
    [] p = "tasks.execute"           -> <<"tasks", ".", "execute">>
    [] p = "compute.control"         -> <<"compute", ".", "control">>
    [] p = "compute.controller.view" -> <<"compute", ".", "control", "ler", ".", "view">>
    [] p = "compute.provision"       -> <<"compute", ".", "provision">>
    [] p = "compute.read"            -> <<"compute", ".", "read">>
    [] p = "user.profile.edit"       -> <<"user", ".", "profile", ".", "edit">>
    [] p = "admin.user.profile.edit" -> <<"admin", ".", "user", ".", "profile", ".", "edit">>
    [] p = "user.profile.view"       -> <<"user", ".", "profile", ".", "view">>
    [] p = "uix.view"                -> <<"ui", "x", ".", "view">>
    [] p = "dashboard"               -> <<"dashboard">>
    [] p = "user.profile.editor"     -> <<"user", ".", "profile", ".", "edit", "or">>

\* String.prototype.startsWith
startsWith(s, prefix) ==
  /\ Len(prefix) <= Len(s)
  /\ SubSeq(s, 1, Len(prefix)) = prefix

\* String.prototype.includes
includes(s, part) ==
  \E i \in 0..(Len(s) - Len(part)) : SubSeq(s, i + 1, i + Len(part)) = part

\* ------------------------------------------------------------ principals
\* allowedPermissions as JSON can carry it: absent, an array, or a value
\* that is neither (a number or an object: it has no filter and no includes).
NoPerms == [tag |-> "undefined"]
NotAList == [tag |-> "object"]
PermArray(items) == [tag |-> "array", items |-> items]

IsArray(perms) == perms.tag = "array"

NullUser == [isNull |-> TRUE]

AuthUser(rt, auth, level, perms) ==
  [resourceType |-> rt, isAuthenticated |-> auth, clearanceLevel |-> level,
   allowedPermissions |-> perms]

\* isPermissionRestrictedForResourceType throws on a non-string permission
\* only where it calls a string method on it.
RestrictionThrows(resourceType, permission) ==
  /\ resourceType \in {"AgentWorkerService", "DataSource"}
  /\ permission = NonString

\* Mutant: the DataSource rule is applied to every type but
\* AgentWorkerService.
isPermissionRestricted_ruleForAll(resourceType, permission) ==
  IF resourceType = "AgentWorkerService"
  THEN \/ startsWith(Spelling(permission), <<"ui", ".">>)
       \/ startsWith(Spelling(permission), <<"dashboard", ".">>)
       \/ includes(Spelling(permission), <<"user", ".", "profile", ".", "edit">>)
  ELSE \/ startsWith(Spelling(permission), <<"compute", ".", "control">>)
       \/ startsWith(Spelling(permission), <<"compute", ".", "provision">>)

isPermissionRestrictedForResourceType(resourceType, permission) ==
  IF resourceType = "AgentWorkerService"
  THEN \/ startsWith(Spelling(permission), <<"ui", ".">>)
       \/ startsWith(Spelling(permission), <<"dashboard", ".">>)
       \/ includes(Spelling(permission), <<"user", ".", "profile", ".", "edit">>)
  ELSE IF resourceType = "DataSource"
  THEN \/ startsWith(Spelling(permission), <<"compute", ".", "control">>)
       \/ startsWith(Spelling(permission), <<"compute", ".", "provision">>)
  ELSE FALSE

\* ------------------------------------------------------------ storage
\* localStorage: the three keys of the service.
STORAGE_TOKEN_KEY == "whs_auth_token"
STORAGE_USER_KEY == "whs_auth_user"
STORAGE_REFRESH_KEY == "whs_refresh_token"
StorageKeys == {STORAGE_TOKEN_KEY, STORAGE_USER_KEY, STORAGE_REFRESH_KEY}

\* The principal snapshot is JSON text: no entry, text that does not parse,
\* or the text of a value (null or an object).
NoJson == [kind |-> "absent"]
CorruptJson == [kind |-> "corrupt"]
JSONstringify(value) == [kind |-> "json", value |-> value]
JSONparseThrows(text) == text.kind = "corrupt"
JSONparse(text) == text.value

NoEntry(key) == IF key = STORAGE_USER_KEY THEN NoJson ELSE Null
HasEntry(store, key) == store[key] # NoEntry(key)
getItem(store, key) == store[key]
setItem(store, key, value) == [store EXCEPT ![key] = value]
removeItem(store, key) == [store EXCEPT ![key] = NoEntry(key)]
EmptyStorage == [key \in StorageKeys |-> NoEntry(key)]

\* ------------------------------------------------------------ service
\* The service's mutable state as one value: the two fields, the storage
\* and what the running step has written to the console.
Service(user, token, store, console) ==
  [currentUser |-> user, authToken |-> token, localStorage |-> store,
   console |-> console]

log(s, event) == [s EXCEPT !.console = @ \cup {event}]

clearStorage(s) ==
  [s EXCEPT !.localStorage = removeItem(removeItem(removeItem(@,
                STORAGE_TOKEN_KEY), STORAGE_USER_KEY), STORAGE_REFRESH_KEY),
            !.currentUser = NullUser,
            !.authToken = Null]

saveToStorage(s, user, token, refreshToken) ==
  LET withToken == setItem(s.localStorage, STORAGE_TOKEN_KEY, ToStorageString(token))
      withUser == setItem(withToken, STORAGE_USER_KEY, JSONstringify(user))
  IN [s EXCEPT !.localStorage =
        IF Truthy(refreshToken)
        THEN setItem(withUser, STORAGE_REFRESH_KEY, refreshToken)
        ELSE withUser]

\* user.allowedPermissions?.filter(...) throws when allowedPermissions is
\* neither absent nor an array, and when the callback throws on an element.
FilterThrows(user) ==
  \/ user.allowedPermissions = NotAList
  \/ /\ IsArray(user.allowedPermissions)
     /\ \E i \in 1..Len(user.allowedPermissions.items) :
          RestrictionThrows(user.resourceType, user.allowedPermissions.items[i])

\* user.allowedPermissions?.filter(restricted) || []
invalidPermissions(user) ==
  IF IsArray(user.allowedPermissions)
  THEN SelectSeq(user.allowedPermissions.items,
         LAMBDA permission :
           isPermissionRestrictedForResourceType(user.resourceType, permission))
  ELSE <<>>

\* Mutant: the second filter keeps what the first one found.
PrunedPermissions_inverted(user) ==
  IF IsArray(user.allowedPermissions)
  THEN SelectSeq(user.allowedPermissions.items,
         LAMBDA permission :
           isPermissionRestrictedForResourceType(user.resourceType, permission))
  ELSE <<>>

\* Mutant: only the first restricted permission is removed.
PrunedPermissions_firstOnly(user) ==
  IF IsArray(user.allowedPermissions)
  THEN LET items == user.allowedPermissions.items
           hits == {i \in 1..Len(items) :
                      isPermissionRestrictedForResourceType(user.resourceType, items[i])}
       IN IF hits = {} THEN items
          ELSE LET first == CHOOSE i \in hits : \A j \in hits : i <= j
               IN SubSeq(items, 1, first - 1) \o SubSeq(items, first + 1, Len(items))
  ELSE <<>>

\* user.allowedPermissions?.filter(not restricted) || []
PrunedPermissions(user) ==
  IF IsArray(user.allowedPermissions)
  THEN SelectSeq(user.allowedPermissions.items,
         LAMBDA permission :
           ~isPermissionRestrictedForResourceType(user.resourceType, permission))
  ELSE <<>>

PruningEvent(user, invalid) ==
  [type |-> "prunedPermissions", resourceType |-> user.resourceType,
   permissions |-> invalid]

\* The synchronous body of the async function: the service afterwards, the
\* user object afterwards (it is mutated in place) and whether the returned
\* promise is rejected.
validateUserResourceTypeConstraints(s, user) ==
  IF ~Truthy(user.resourceType)
  THEN [service |-> clearStorage(s), user |-> user, rejected |-> FALSE]
  ELSE IF FilterThrows(user)
  THEN [service |-> s, user |-> user, rejected |-> TRUE]
  ELSE IF Len(invalidPermissions(user)) > 0
  THEN LET pruned == [user EXCEPT
                        !.allowedPermissions = PermArray(PrunedPermissions(user))]
       IN [service |-> saveToStorage(log(s, PruningEvent(user, invalidPermissions(user))),
                         pruned, s.authToken,
                         getItem(s.localStorage, STORAGE_REFRESH_KEY)),
           user |-> pruned, rejected |-> FALSE]
  ELSE [service |-> s, user |-> user, rejected |-> FALSE]

UnhandledRejection == [type |-> "unhandledRejection"]

\* Mutant: a snapshot that does not parse is skipped without clearing.
loadFromStorage_noClearOnParseError(s) ==
  LET token == getItem(s.localStorage, STORAGE_TOKEN_KEY)
      userJson == getItem(s.localStorage, STORAGE_USER_KEY)
  IN IF Truthy(token) /\ userJson # NoJson
     THEN IF JSONparseThrows(userJson)
          THEN [s EXCEPT !.authToken = token]
          ELSE LET loaded == [s EXCEPT !.authToken = token,
                                       !.currentUser = JSONparse(userJson)]
                   v == validateUserResourceTypeConstraints(loaded, loaded.currentUser)
               IN IF loaded.currentUser = NullUser THEN loaded
                  ELSE IF v.rejected THEN log(v.service, UnhandledRejection)
                  ELSE IF v.service.currentUser = NullUser THEN v.service
                  ELSE [v.service EXCEPT !.currentUser = v.user]
     ELSE s

\* loadFromStorage, with this.currentUser aliased to the user object that
\* validateUserResourceTypeConstraints mutates.  The call is not awaited:
\* a rejection of its promise is not caught by the try block.
loadFromStorage(s) ==
  LET token == getItem(s.localStorage, STORAGE_TOKEN_KEY)
      userJson == getItem(s.localStorage, STORAGE_USER_KEY)
  IN IF Truthy(token) /\ userJson # NoJson
     THEN IF JSONparseThrows(userJson)
          THEN clearStorage([s EXCEPT !.authToken = token])
          ELSE LET loaded == [s EXCEPT !.authToken = token,
                                       !.currentUser = JSONparse(userJson)]
                   v == validateUserResourceTypeConstraints(loaded, loaded.currentUser)
               IN IF loaded.currentUser = NullUser THEN loaded
                  ELSE IF v.rejected THEN log(v.service, UnhandledRejection)
                  ELSE IF v.service.currentUser = NullUser THEN v.service
                  ELSE [v.service EXCEPT !.currentUser = v.user]
     ELSE s

\* new ResourceTypeAuthService() over a given localStorage
constructor(store) == loadFromStorage(Service(NullUser, Null, store, {}))

\* ------------------------------------------------------------ queries
\* Mutant: the authenticated flag alone decides.
isAuthenticated_flagOnly(s) ==
  /\ s.currentUser # NullUser
  /\ s.currentUser.isAuthenticated

isAuthenticated(s) ==
  /\ s.currentUser # NullUser
  /\ s.currentUser.isAuthenticated
  /\ Truthy(s.currentUser.resourceType)

\* Mutant: any classified principal may use the UI.
canAccessUI_anyType(s) ==
  s.currentUser # NullUser /\ Truthy(s.currentUser.resourceType)

canAccessUI(s) ==
  IF s.currentUser = NullUser \/ ~Truthy(s.currentUser.resourceType)
  THEN FALSE
  ELSE s.currentUser.resourceType # "AgentWorkerService"

\* allowedPermissions?.includes(permission) throws when allowedPermissions
\* is neither absent nor an array.
hasPermissionThrows(s) ==
  /\ s.currentUser # NullUser
  /\ s.currentUser.allowedPermissions = NotAList

\* Mutant: the stored permissions are trusted, without the check at query time.
hasPermission_storedOnly(s, permission) ==
  /\ s.currentUser # NullUser
  /\ IsArray(s.currentUser.allowedPermissions)
  /\ \E i \in 1..Len(s.currentUser.allowedPermissions.items) :
       s.currentUser.allowedPermissions.items[i] = permission

\* hasPermission(permission) returns true
hasPermission(s, permission) ==
  /\ s.currentUser # NullUser
  /\ IsArray(s.currentUser.allowedPermissions)
  /\ \E i \in 1..Len(s.currentUser.allowedPermissions.items) :
       s.currentUser.allowedPermissions.items[i] = permission
  /\ IF Truthy(s.currentUser.resourceType)
     THEN ~isPermissionRestrictedForResourceType(s.currentUser.resourceType, permission)
     ELSE TRUE

\* Mutant: the required level must be exceeded.
hasMinimumClearanceLevel_strict(s, requiredLevel) ==
  IF s.currentUser = NullUser \/ s.currentUser.clearanceLevel = 0
  THEN FALSE
  ELSE s.currentUser.clearanceLevel > requiredLevel

\* lines 465-471; a clearance level that is absent (or 0) is falsy
hasMinimumClearanceLevel(s, requiredLevel) ==
  IF s.currentUser = NullUser \/ s.currentUser.clearanceLevel = 0
  THEN FALSE
  ELSE s.currentUser.clearanceLevel >= requiredLevel

\* lines 490-495: the object with the Authorization header, or {}
getAuthHeader(s) ==
  IF Truthy(s.authToken)
  THEN [name \in {"Authorization"} |-> <<"Bearer", s.authToken>>]
  ELSE [name \in {} |-> <<>>]

\* ------------------------------------------------------------ inputs
\* Permission strings that principals of the model carry.
PermissionPool == {"ui.dashboard.view", "tasks.execute", "compute.control"}

PermissionArrays ==
  UNION {[1..n -> PermissionPool] : n \in 0..MaxPerms}

\* AuthUser objects: every permission array for the two restricted resource
\* types and an unrestricted one, and one array for every resource type and
\* for resourceType missing, with the authenticated flag set and not.
AllUsers ==
  {AuthUser(rt, TRUE, Internal, PermArray(items)) :
     rt \in {"User", "AgentWorkerService", "DataSource"}, items \in PermissionArrays}
    \cup
  {AuthUser(rt, auth, Internal, PermArray(<<"ui.dashboard.view", "tasks.execute">>)) :
     rt \in ResourceType \cup {Null}, auth \in BOOLEAN}

\* A few of them, for the behaviours in which calls overlap.
FewUsers ==
  {AuthUser(rt, auth, Internal, PermArray(<<"ui.dashboard.view", "tasks.execute">>)) :
     rt \in {Null, "User", "AgentWorkerService"}, auth \in BOOLEAN}
    \cup {AuthUser("DataSource", TRUE, Internal, PermArray(<<"compute.control">>))}

\* What the principal snapshot in storage can hold besides AuthUser objects:
\* stale or tampered JSON, with allowedPermissions missing, not an array, or
\* an array with an element that is not a string.
MalformedUsers ==
  {AuthUser(rt, TRUE, Internal, perms) :
     rt \in {"User", "AgentWorkerService"},
     perms \in {NoPerms, NotAList,
                PermArray(<<"ui.dashboard.view", NonString>>)}}

StoredJson(users) ==
  {NoJson, CorruptJson, JSONstringify(NullUser)}
    \cup {JSONstringify(u) : u \in users \cup MalformedUsers}

\* The storage a page load can find.
Storages(users) ==
  {[key \in StorageKeys |->
      CASE key = STORAGE_TOKEN_KEY -> token
        [] key = STORAGE_USER_KEY -> json
        [] key = STORAGE_REFRESH_KEY -> refresh] :
     token \in {Null, "token0"}, json \in StoredJson(users),
     refresh \in {Null, "refresh0"}}

\* ------------------------------------------------------------ state
VARIABLES
  currentUser,   \* this.currentUser
  authToken,     \* this.authToken
  localStorage,  \* the three keys in window.localStorage
  console,       \* what the last step logged
  pc,            \* where each asynchronous call stands
  loginFrame,    \* login's locals across its await of the validation
  checkFrame,    \* the arguments of the constraint calls across their await
  returned       \* what the last step returned to its caller, if it returned

vars == <<currentUser, authToken, localStorage, console, pc, loginFrame,
          checkFrame, returned>>

Calls == {"login", "validateToken", "refreshToken", "logout",
          "checkResourceTypeCompatibility", "validatePermissionForResourceType"}

this == Service(currentUser, authToken, localStorage, {})

Becomes(s) ==
  /\ currentUser' = s.currentUser
  /\ authToken' = s.authToken
  /\ localStorage' = s.localStorage
  /\ console' = s.console

\* `received` is history: the user object as the response carried it, before
\* validateUserResourceTypeConstraints changed it in place.
NoFrame == [user |-> NullUser, token |-> Null, refreshToken |-> Null,
            received |-> NullUser]
NoCheck == [targetResourceType |-> Null, operation |-> Null, permission |-> Null]
NoReturn == [call |-> "none"]
Returns(call, value) == [call |-> call, value |-> value]
\* `found` is history: the storage the constructor read.
Constructs(store) == [call |-> "constructor", found |-> store]
Idle == [c \in Calls |-> "idle"]

\* The state after construction over one of the given storages; what the
\* constructor read is kept in `returned` until the next step.
Constructed(stores) ==
  \E store \in stores : \E s \in {constructor(store)} :
    /\ currentUser = s.currentUser
    /\ authToken = s.authToken
    /\ localStorage = s.localStorage
    /\ console = s.console
    /\ pc = Idle
    /\ loginFrame = NoFrame
    /\ checkFrame = NoCheck
    /\ returned = Constructs(store)

Init == Constructed(Storages(FewUsers))

\* The page is loaded again: a new service is constructed over the storage
\* as it stands, and the calls of the old page are gone.
pageLoad ==
  /\ \E s \in {constructor(localStorage)} : Becomes(s)
  /\ pc' = Idle
  /\ loginFrame' = NoFrame
  /\ checkFrame' = NoCheck
  /\ returned' = Constructs(localStorage)

Goto(call, label) == pc' = [pc EXCEPT ![call] = label]

\* ------------------------------------------------------------ login
\* What the identity provider's answer can be once fetch and
\* response.json() have settled: fetch rejected, a body that is not JSON,
\* or a parsed body with the HTTP status.
SampleUser == AuthUser("User", TRUE, Internal, PermArray(<<"tasks.execute">>))

LoginResponses(users) ==
  {[kind |-> "networkError"], [kind |-> "bodyNotJson"]}
    \cup
  {r \in [kind : {"json"}, ok : BOOLEAN, success : BOOLEAN, requiresMfa : BOOLEAN,
          error : {Null, "Invalid credentials"}, user : {NullUser, SampleUser},
          token : {Null, "tokenA"}, refreshToken : {Null}] :
     /\ r.ok /\ r.success /\ ~r.requiresMfa
          => (r.user = NullUser \/ r.token = Null) /\ r.error = Null
     /\ r.error # Null => ~r.success}
    \cup
  {[kind |-> "json", ok |-> TRUE, success |-> TRUE, requiresMfa |-> FALSE,
    error |-> Null, user |-> user, token |-> "tokenA", refreshToken |-> refresh] :
     user \in {AuthUser("AgentWorkerService", TRUE, Internal, NotAList)} \cup users,
     refresh \in {Null, "refreshA"}}

LoginResponsesFew == LoginResponses(FewUsers)
LoginResponsesAll == LoginResponses(AllUsers)

ErrAuthenticationFailed == "Authentication failed"
ErrInvalidResponse == "Invalid response from authentication service"
ErrMissingResourceType == "Invalid authentication response - missing ResourceType"
ErrLoginFailed == "Login failed. Please try again."

LoginFailure(error, requiresMfa) ==
  [call |-> "login", success |-> FALSE, error |-> error,
   requiresMfa |-> requiresMfa, user |-> NullUser, token |-> Null,
   refreshToken |-> Null, received |-> NullUser]

LoginSuccess(frame) ==
  [call |-> "login", success |-> TRUE, error |-> Null, requiresMfa |-> FALSE,
   user |-> frame.user, token |-> frame.token,
   refreshToken |-> frame.refreshToken, received |-> frame.received]

\* Mutant: the check that the user has a resourceType (lines 194-201) is
\* missing, so the user goes on to validateUserResourceTypeConstraints.
loginAfterFetch_noResourceTypeCheck(s, response) ==
  IF response.kind # "json"
  THEN [service |-> s, returns |-> LoginFailure(ErrLoginFailed, FALSE), frame |-> NoFrame]
  ELSE IF ~response.ok \/ ~response.success
  THEN [service |-> s,
        returns |-> LoginFailure(IF Truthy(response.error) THEN response.error
                                 ELSE ErrAuthenticationFailed,
                                 response.requiresMfa),
        frame |-> NoFrame]
  ELSE IF response.requiresMfa
  THEN [service |-> s, returns |-> LoginFailure(Null, TRUE), frame |-> NoFrame]
  ELSE IF response.user = NullUser \/ ~Truthy(response.token)
  THEN [service |-> s, returns |-> LoginFailure(ErrInvalidResponse, FALSE), frame |-> NoFrame]
  ELSE LET v == validateUserResourceTypeConstraints(s, response.user)
       IN IF v.rejected
          THEN [service |-> v.service, returns |-> LoginFailure(ErrLoginFailed, FALSE),
                frame |-> NoFrame]
          ELSE [service |-> v.service, returns |-> NoReturn,
                frame |-> [user |-> v.user, token |-> response.token,
                           refreshToken |-> response.refreshToken,
                           received |-> response.user]]

\* Mutant: the check for a pending MFA verification (lines 177-183) is
\* missing.
loginAfterFetch_noMfaCheck(s, response) ==
  IF response.kind # "json"
  THEN [service |-> s, returns |-> LoginFailure(ErrLoginFailed, FALSE), frame |-> NoFrame]
  ELSE IF ~response.ok \/ ~response.success
  THEN [service |-> s,
        returns |-> LoginFailure(IF Truthy(response.error) THEN response.error
                                 ELSE ErrAuthenticationFailed,
                                 response.requiresMfa),
        frame |-> NoFrame]
  ELSE IF response.user = NullUser \/ ~Truthy(response.token)
  THEN [service |-> s, returns |-> LoginFailure(ErrInvalidResponse, FALSE), frame |-> NoFrame]
  ELSE IF ~Truthy(response.user.resourceType)
  THEN [service |-> log(s, [type |-> "missingResourceType"]),
        returns |-> LoginFailure(ErrMissingResourceType, FALSE), frame |-> NoFrame]
  ELSE LET v == validateUserResourceTypeConstraints(s, response.user)
       IN IF v.rejected
          THEN [service |-> v.service, returns |-> LoginFailure(ErrLoginFailed, FALSE),
                frame |-> NoFrame]
          ELSE [service |-> v.service, returns |-> NoReturn,
                frame |-> [user |-> v.user, token |-> response.token,
                           refreshToken |-> response.refreshToken,
                           received |-> response.user]]

\* Mutant: the fields are assigned before the check that the response
\* carries both a user and a token.
loginAfterFetch_assignsFirst(s, response) ==
  IF response.kind # "json"
  THEN [service |-> s, returns |-> LoginFailure(ErrLoginFailed, FALSE), frame |-> NoFrame]
  ELSE IF ~response.ok \/ ~response.success
  THEN [service |-> s,
        returns |-> LoginFailure(IF Truthy(response.error) THEN response.error
                                 ELSE ErrAuthenticationFailed,
                                 response.requiresMfa),
        frame |-> NoFrame]
  ELSE IF response.requiresMfa
  THEN [service |-> s, returns |-> LoginFailure(Null, TRUE), frame |-> NoFrame]
  ELSE IF response.user = NullUser \/ ~Truthy(response.token)
  THEN [service |-> [s EXCEPT !.currentUser = response.user,
                              !.authToken = response.token],
        returns |-> LoginFailure(ErrInvalidResponse, FALSE), frame |-> NoFrame]
  ELSE IF ~Truthy(response.user.resourceType)
  THEN [service |-> log(s, [type |-> "missingResourceType"]),
        returns |-> LoginFailure(ErrMissingResourceType, FALSE), frame |-> NoFrame]
  ELSE LET v == validateUserResourceTypeConstraints(s, response.user)
       IN IF v.rejected
          THEN [service |-> v.service, returns |-> LoginFailure(ErrLoginFailed, FALSE),
                frame |-> NoFrame]
          ELSE [service |-> v.service, returns |-> NoReturn,
                frame |-> [user |-> v.user, token |-> response.token,
                           refreshToken |-> response.refreshToken,
                           received |-> response.user]]

\* login from the settled fetch up to its await of
\* validateUserResourceTypeConstraints (lines 167-204): the service
\* afterwards, and either what login returns or the frame it resumes with.
loginAfterFetch(s, response) ==
  IF response.kind # "json"
  THEN [service |-> s, returns |-> LoginFailure(ErrLoginFailed, FALSE), frame |-> NoFrame]
  ELSE IF ~response.ok \/ ~response.success
  THEN [service |-> s,
        returns |-> LoginFailure(IF Truthy(response.error) THEN response.error
                                 ELSE ErrAuthenticationFailed,
                                 response.requiresMfa),
        frame |-> NoFrame]
  ELSE IF response.requiresMfa
  THEN [service |-> s, returns |-> LoginFailure(Null, TRUE), frame |-> NoFrame]
  ELSE IF response.user = NullUser \/ ~Truthy(response.token)
  THEN [service |-> s, returns |-> LoginFailure(ErrInvalidResponse, FALSE), frame |-> NoFrame]
  ELSE IF ~Truthy(response.user.resourceType)
  THEN [service |-> log(s, [type |-> "missingResourceType"]),
        returns |-> LoginFailure(ErrMissingResourceType, FALSE), frame |-> NoFrame]
  ELSE LET v == validateUserResourceTypeConstraints(s, response.user)
       IN IF v.rejected
          THEN [service |-> v.service, returns |-> LoginFailure(ErrLoginFailed, FALSE),
                frame |-> NoFrame]
          ELSE [service |-> v.service, returns |-> NoReturn,
                frame |-> [user |-> v.user, token |-> response.token,
                           refreshToken |-> response.refreshToken,
                           received |-> response.user]]

\* login after that await (lines 206-217)
loginAfterValidate(s, frame) ==
  saveToStorage([s EXCEPT !.currentUser = frame.user, !.authToken = frame.token],
                frame.user, frame.token, frame.refreshToken)

login_call ==
  /\ pc["login"] = "idle"
  /\ Goto("login", "fetch")
  /\ Becomes(this)
  /\ returned' = NoReturn
  /\ UNCHANGED <<loginFrame, checkFrame>>

login_settle(response) ==
  /\ pc["login"] = "fetch"
  /\ \E r \in {loginAfterFetch(this, response)} :
        /\ Becomes(r.service)
        /\ returned' = r.returns
        /\ loginFrame' = r.frame
        /\ Goto("login", IF r.returns = NoReturn THEN "validated" ELSE "idle")
  /\ UNCHANGED checkFrame

login_resume ==
  /\ pc["login"] = "validated"
  /\ \E s \in {loginAfterValidate(this, loginFrame)} : Becomes(s)
  /\ returned' = LoginSuccess(loginFrame)
  /\ loginFrame' = NoFrame
  /\ Goto("login", "idle")
  /\ UNCHANGED checkFrame

\* ------------------------------------------------------------ validateToken
ValidateResponses ==
  {[kind |-> "networkError"], [kind |-> "bodyNotJson"]}
    \cup
  {[kind |-> "json", ok |-> ok, isValid |-> isValid, resourceType |-> rt] :
     ok \in BOOLEAN, isValid \in BOOLEAN, rt \in {Null, "User"}}

\* validateToken from the settled fetch (lines 244-261)
validateTokenAfterFetch(s, response) ==
  IF response.kind # "json" \/ ~response.ok
  THEN [service |-> clearStorage(s), value |-> FALSE]
  ELSE IF ~response.isValid \/ ~Truthy(response.resourceType)
  THEN [service |-> clearStorage(s), value |-> FALSE]
  ELSE [service |-> s, value |-> TRUE]

validateToken_call ==
  /\ pc["validateToken"] = "idle"
  /\ Becomes(this)
  /\ UNCHANGED <<loginFrame, checkFrame>>
  /\ IF ~Truthy(authToken)
     THEN /\ returned' = Returns("validateToken", FALSE)
          /\ UNCHANGED pc
     ELSE /\ returned' = NoReturn
          /\ Goto("validateToken", "fetch")

validateToken_settle(response) ==
  /\ pc["validateToken"] = "fetch"
  /\ \E r \in {validateTokenAfterFetch(this, response)} :
        /\ Becomes(r.service)
        /\ returned' = Returns("validateToken", r.value)
  /\ Goto("validateToken", "idle")
  /\ UNCHANGED <<loginFrame, checkFrame>>

\* ------------------------------------------------------------ refreshToken
RefreshResponses ==
  {[kind |-> "networkError"], [kind |-> "bodyNotJson"]}
    \cup
  {[kind |-> "json", ok |-> ok, success |-> success, accessToken |-> access,
    refreshToken |-> refresh] :
     ok \in BOOLEAN, success \in BOOLEAN, access \in {Null, "tokenR"},
     refresh \in {Null, "refreshR"}}

\* Mutant: a successful refresh writes the session anew and loses the
\* principal.
refreshTokenAfterFetch_dropsPrincipal(s, response) ==
  IF response.kind # "json" \/ ~response.ok
  THEN [service |-> clearStorage(s), value |-> FALSE]
  ELSE IF response.success /\ Truthy(response.accessToken)
  THEN LET withToken == setItem(removeItem(s.localStorage, STORAGE_USER_KEY),
                                STORAGE_TOKEN_KEY, response.accessToken)
       IN [service |-> [s EXCEPT !.authToken = response.accessToken,
                                 !.currentUser = NullUser,
                                 !.localStorage =
                                   IF Truthy(response.refreshToken)
                                   THEN setItem(withToken, STORAGE_REFRESH_KEY,
                                                response.refreshToken)
                                   ELSE withToken],
           value |-> TRUE]
  ELSE [service |-> clearStorage(s), value |-> FALSE]

\* refreshToken from the settled fetch (lines 392-416)
refreshTokenAfterFetch(s, response) ==
  IF response.kind # "json" \/ ~response.ok
  THEN [service |-> clearStorage(s), value |-> FALSE]
  ELSE IF response.success /\ Truthy(response.accessToken)
  THEN LET withToken == setItem(s.localStorage, STORAGE_TOKEN_KEY, response.accessToken)
       IN [service |-> [s EXCEPT !.authToken = response.accessToken,
                                 !.localStorage =
                                   IF Truthy(response.refreshToken)
                                   THEN setItem(withToken, STORAGE_REFRESH_KEY,
                                                response.refreshToken)
                                   ELSE withToken],
           value |-> TRUE]
  ELSE [service |-> clearStorage(s), value |-> FALSE]

refreshToken_call ==
  /\ pc["refreshToken"] = "idle"
  /\ Becomes(this)
  /\ UNCHANGED <<loginFrame, checkFrame>>
  /\ IF ~Truthy(getItem(localStorage, STORAGE_REFRESH_KEY))
     THEN /\ returned' = Returns("refreshToken", FALSE)
          /\ UNCHANGED pc
     ELSE /\ returned' = NoReturn
          /\ Goto("refreshToken", "fetch")

refreshToken_settle(response) ==
  /\ pc["refreshToken"] = "fetch"
  /\ \E r \in {refreshTokenAfterFetch(this, response)} :
        /\ Becomes(r.service)
        /\ returned' = Returns("refreshToken", r.value)
  /\ Goto("refreshToken", "idle")
  /\ UNCHANGED <<loginFrame, checkFrame>>

\* ------------------------------------------------------------ logout
\* fetch resolves with any HTTP status or rejects; logout reads neither.
LogoutResponses ==
  {[kind |-> "networkError"]} \cup {[kind |-> "response", ok |-> ok] : ok \in BOOLEAN}

\* logout resolves with undefined; `remote` is history: how the call to
\* the logout endpoint went ("none" when there was no token to send).
LogoutReturns(remote) == [call |-> "logout", value |-> Null, remote |-> remote]

RemoteOutcome(response) ==
  IF response.kind = "networkError" THEN "networkError"
  ELSE IF response.ok THEN "ok" ELSE "httpError"

logout_call ==
  /\ pc["logout"] = "idle"
  /\ UNCHANGED <<loginFrame, checkFrame>>
  /\ IF Truthy(authToken)
     THEN /\ Becomes(this)
          /\ returned' = NoReturn
          /\ Goto("logout", "fetch")
     ELSE /\ Becomes(clearStorage(this))
          /\ returned' = LogoutReturns("none")
          /\ UNCHANGED pc

\* Mutant: clearStorage stands at the end of the try block instead of in
\* finally, so a rejected fetch skips it.
logout_settle_noFinally(response) ==
  /\ pc["logout"] = "fetch"
  /\ Becomes(IF response.kind = "networkError"
             THEN log(this, [type |-> "logoutFailed"])
             ELSE clearStorage(this))
  /\ returned' = LogoutReturns(RemoteOutcome(response))
  /\ Goto("logout", "idle")
  /\ UNCHANGED <<loginFrame, checkFrame>>

\* logout from the settled fetch (lines 433-438): a rejection is logged
\* with console.warn, and finally clears in every case.
logout_settle(response) ==
  /\ pc["logout"] = "fetch"
  /\ Becomes(clearStorage(IF response.kind = "networkError"
                          THEN log(this, [type |-> "logoutFailed"])
                          ELSE this))
  /\ returned' = LogoutReturns(RemoteOutcome(response))
  /\ Goto("logout", "idle")
  /\ UNCHANGED <<loginFrame, checkFrame>>

\* ------------------------------------------------------------ checkResourceTypeCompatibility
TargetResourceTypes == {"ComputeResource", "User"}
Operations == {"compute.provision", "tasks.read"}

CompatibilityResult(isCompatible, restrictions, warnings, recommendations) ==
  [isCompatible |-> isCompatible, restrictions |-> restrictions,
   warnings |-> warnings, recommendations |-> recommendations]

\* lines 272-277
NoUserResult ==
  CompatibilityResult(FALSE, <<"No authenticated user or ResourceType">>,
                      <<"Authentication required">>, <<"Please log in first">>)

\* lines 313-318
CheckFailedResult ==
  CompatibilityResult(FALSE, <<"Compatibility check failed">>,
                      <<"Unable to validate ResourceType constraints">>,
                      <<"Contact system administrator">>)

\* What the constraints service's answer can be once fetch and
\* response.json() have settled: fetch rejected, a body that is not JSON,
\* the JSON body null, or a CompatibilityResult with the HTTP status.
CompatibilityResponses ==
  {[kind |-> "networkError"], [kind |-> "bodyNotJson"], [kind |-> "jsonNull"]}
    \cup
  {[kind |-> "json", ok |-> ok,
    result |-> CompatibilityResult(isCompatible, restrictions, <<>>, <<>>)] :
     ok \in BOOLEAN, isCompatible \in BOOLEAN,
     restrictions \in {<<>>, <<"Cross-type operation not allowed">>}}

CompatibilityViolation(source, frame, restrictions) ==
  [type |-> "compatibilityViolation", source |-> source,
   target |-> frame.targetResourceType, operation |-> frame.operation,
   restrictions |-> restrictions]

CompatibilityError == [type |-> "compatibilityCheckError"]

CheckReturns(frame, value) ==
  [call |-> "checkResourceTypeCompatibility", value |-> value,
   targetResourceType |-> frame.targetResourceType, operation |-> frame.operation]

\* Mutant: a response that is not OK is read like any other.
checkAfterFetch_statusIgnored(s, frame, response) ==
  IF response.kind # "json"
  THEN [service |-> log(s, CompatibilityError), value |-> CheckFailedResult]
  ELSE IF response.result.isCompatible
  THEN [service |-> s, value |-> response.result]
  ELSE IF s.currentUser = NullUser
  THEN [service |-> log(s, CompatibilityError), value |-> CheckFailedResult]
  ELSE [service |-> log(s, CompatibilityViolation(s.currentUser.resourceType, frame,
                                                   response.result.restrictions)),
        value |-> response.result]

\* checkResourceTypeCompatibility from the settled fetch (lines 294-319).
\* The body null makes result.isCompatible throw, and a principal that
\* became null during the await makes this.currentUser.resourceType throw
\* (line 303); both are caught like the failed fetch.
checkAfterFetch(s, frame, response) ==
  IF response.kind # "json" \/ ~response.ok
  THEN [service |-> log(s, CompatibilityError), value |-> CheckFailedResult]
  ELSE IF response.result.isCompatible
  THEN [service |-> s, value |-> response.result]
  ELSE IF s.currentUser = NullUser
  THEN [service |-> log(s, CompatibilityError), value |-> CheckFailedResult]
  ELSE [service |-> log(s, CompatibilityViolation(s.currentUser.resourceType, frame,
                                                   response.result.restrictions)),
        value |-> response.result]

\* Mutant: without a principal the check goes on to the remote service.
checkResourceTypeCompatibility_call_noGuard(targetResourceType, operation) ==
  /\ pc["checkResourceTypeCompatibility"] = "idle"
  /\ Becomes(this)
  /\ UNCHANGED loginFrame
  /\ returned' = NoReturn
  /\ checkFrame' = [checkFrame EXCEPT !.targetResourceType = targetResourceType,
                                       !.operation = operation]
  /\ Goto("checkResourceTypeCompatibility", "fetch")

\* lines 267-292: up to the await of fetch
checkResourceTypeCompatibility_call(targetResourceType, operation) ==
  /\ pc["checkResourceTypeCompatibility"] = "idle"
  /\ Becomes(this)
  /\ UNCHANGED loginFrame
  /\ IF currentUser = NullUser \/ ~Truthy(currentUser.resourceType)
     THEN /\ returned' = CheckReturns([targetResourceType |-> targetResourceType,
                                       operation |-> operation], NoUserResult)
          /\ UNCHANGED <<pc, checkFrame>>
     ELSE /\ returned' = NoReturn
          /\ checkFrame' = [checkFrame EXCEPT
                              !.targetResourceType = targetResourceType,
                              !.operation = operation]
          /\ Goto("checkResourceTypeCompatibility", "fetch")

checkResourceTypeCompatibility_settle(response) ==
  /\ pc["checkResourceTypeCompatibility"] = "fetch"
  /\ \E r \in {checkAfterFetch(this, checkFrame, response)} :
        /\ Becomes(r.service)
        /\ returned' = CheckReturns(checkFrame, r.value)
  /\ checkFrame' = [checkFrame EXCEPT !.targetResourceType = Null,
                                       !.operation = Null]
  /\ Goto("checkResourceTypeCompatibility", "idle")
  /\ UNCHANGED loginFrame

\* ------------------------------------------------------------ validatePermissionForResourceType
ValidatedPermissions ==
  {"ui.dashboard.view", "tasks.execute", "compute.control", "admin.user.profile.edit"}

\* `reasons` holds texts; a text is the sequence of its literal and
\* interpolated pieces.
ResourceTypeValidationResult(isValid, allowedActions, blockedActions, reasons) ==
  [isValid |-> isValid, allowedActions |-> allowedActions,
   blockedActions |-> blockedActions, reasons |-> reasons]

\* lines 327-332
NoUserValidation(permission) ==
  ResourceTypeValidationResult(FALSE, <<>>, <<permission>>,
    << <<"No authenticated user or ResourceType">> >>)

\* lines 337-342
RestrictedValidation(resourceType, permission) ==
  ResourceTypeValidationResult(FALSE, <<>>, <<permission>>,
    << <<"Permission '", permission, "' is not allowed for ResourceType '",
         resourceType, "'">> >>)

\* lines 365-370
ValidationFailed(permission) ==
  ResourceTypeValidationResult(FALSE, <<>>, <<permission>>,
    << <<"Permission validation failed">> >>)

\* What the constraints service's answer can be: fetch rejected, a body
\* that is not JSON, or a ResourceTypeValidationResult with the HTTP
\* status.  The service answers about the permission it was asked about
\* or about another one.
PermissionResponses ==
  {[kind |-> "networkError"], [kind |-> "bodyNotJson"]}
    \cup
  {[kind |-> "json", ok |-> ok,
    result |-> ResourceTypeValidationResult(isValid, allowed, blocked, <<>>)] :
     ok \in BOOLEAN, isValid \in BOOLEAN,
     allowed \in {<<>>, <<"tasks.execute">>}, blocked \in {<<>>, <<"tasks.execute">>}}

PermissionReturns(permission, value) ==
  [call |-> "validatePermissionForResourceType", permission |-> permission,
   value |-> value]

PermissionError == [type |-> "permissionValidationError"]

\* validatePermissionForResourceType from the settled fetch (lines 358-371)
validatePermissionAfterFetch(s, permission, response) ==
  IF response.kind # "json" \/ ~response.ok
  THEN [service |-> log(s, PermissionError), value |-> ValidationFailed(permission)]
  ELSE [service |-> s, value |-> response.result]

\* Mutant: the client-side check of the restriction (lines 336-343) is
\* missing, so the remote service decides.
validatePermissionForResourceType_call_remoteOnly(permission) ==
  /\ pc["validatePermissionForResourceType"] = "idle"
  /\ Becomes(this)
  /\ UNCHANGED loginFrame
  /\ IF currentUser = NullUser \/ ~Truthy(currentUser.resourceType)
     THEN /\ returned' = PermissionReturns(permission, NoUserValidation(permission))
          /\ UNCHANGED <<pc, checkFrame>>
     ELSE /\ returned' = NoReturn
          /\ checkFrame' = [checkFrame EXCEPT !.permission = permission]
          /\ Goto("validatePermissionForResourceType", "fetch")

\* lines 325-356: up to the await of fetch
validatePermissionForResourceType_call(permission) ==
  /\ pc["validatePermissionForResourceType"] = "idle"
  /\ Becomes(this)
  /\ UNCHANGED loginFrame
  /\ IF currentUser = NullUser \/ ~Truthy(currentUser.resourceType)
     THEN /\ returned' = PermissionReturns(permission, NoUserValidation(permission))
          /\ UNCHANGED <<pc, checkFrame>>
     ELSE IF isPermissionRestrictedForResourceType(currentUser.resourceType, permission)
     THEN /\ returned' = PermissionReturns(permission,
                            RestrictedValidation(currentUser.resourceType, permission))
          /\ UNCHANGED <<pc, checkFrame>>
     ELSE /\ returned' = NoReturn
          /\ checkFrame' = [checkFrame EXCEPT !.permission = permission]
          /\ Goto("validatePermissionForResourceType", "fetch")

validatePermissionForResourceType_settle(response) ==
  /\ pc["validatePermissionForResourceType"] = "fetch"
  /\ \E r \in {validatePermissionAfterFetch(this, checkFrame.permission, response)} :
        /\ Becomes(r.service)
        /\ returned' = PermissionReturns(checkFrame.permission, r.value)
  /\ checkFrame' = [checkFrame EXCEPT !.permission = Null]
  /\ Goto("validatePermissionForResourceType", "idle")
  /\ UNCHANGED loginFrame

\* ------------------------------------------------------------ behaviours
Next ==
  \/ pageLoad
  \/ login_call
  \/ \E response \in LoginResponsesFew : login_settle(response)
  \/ login_resume
  \/ validateToken_call
  \/ \E response \in ValidateResponses : validateToken_settle(response)
  \/ refreshToken_call
  \/ \E response \in RefreshResponses : refreshToken_settle(response)
  \/ logout_call
  \/ \E response \in LogoutResponses : logout_settle(response)

Spec == Init /\ [][Next]_vars

\* Compatibility checks, with the calls that change the principal (login,
\* logout, a page load) free to run during the check's await.
NextCompatibility ==
  \/ pageLoad
  \/ login_call
  \/ \E response \in LoginResponsesFew : login_settle(response)
  \/ login_resume
  \/ logout_call
  \/ \E response \in LogoutResponses : logout_settle(response)
  \/ \E targetResourceType \in TargetResourceTypes, operation \in Operations :
       checkResourceTypeCompatibility_call(targetResourceType, operation)
  \/ \E response \in CompatibilityResponses :
       checkResourceTypeCompatibility_settle(response)

SpecCompatibility == Init /\ [][NextCompatibility]_vars

\* Permission validations, with the calls that change the principal free
\* to run during the validation's await.
NextPermission ==
  \/ pageLoad
  \/ login_call
  \/ \E response \in LoginResponsesFew : login_settle(response)
  \/ login_resume
  \/ logout_call
  \/ \E response \in LogoutResponses : logout_settle(response)
  \/ \E permission \in ValidatedPermissions :
       validatePermissionForResourceType_call(permission)
  \/ \E response \in PermissionResponses :
       validatePermissionForResourceType_settle(response)

SpecPermission == Init /\ [][NextPermission]_vars

\* Every call of the service together.  After `await
\* validateUserResourceTypeConstraints(user)` login's continuation is a
\* microtask that the event loop always runs: weak fairness for
\* login_resume.  The settle steps wait for an answer of the remote
\* service, and no call sets a timer or an abort signal on its fetch: no
\* fairness for them.
LiveLoginResponses ==
  {response \in LoginResponsesFew :
     \/ response.kind = "networkError"
     \/ /\ response.kind = "json"
        /\ response.ok /\ response.success /\ ~response.requiresMfa
        /\ response.user =
             AuthUser("User", TRUE, Internal,
                      PermArray(<<"ui.dashboard.view", "tasks.execute">>))
        /\ response.token = "tokenA"}

NextLive ==
  \/ pageLoad
  \/ login_call
  \/ \E response \in LiveLoginResponses : login_settle(response)
  \/ login_resume
  \/ validateToken_call
  \/ \E response \in ValidateResponses : validateToken_settle(response)
  \/ refreshToken_call
  \/ \E response \in RefreshResponses : refreshToken_settle(response)
  \/ logout_call
  \/ \E response \in LogoutResponses : logout_settle(response)
  \/ checkResourceTypeCompatibility_call("ComputeResource", "compute.provision")
  \/ \E response \in CompatibilityResponses :
       checkResourceTypeCompatibility_settle(response)
  \/ validatePermissionForResourceType_call("tasks.execute")
  \/ \E response \in PermissionResponses :
       validatePermissionForResourceType_settle(response)

SpecLive == Init /\ [][NextLive]_vars /\ WF_vars(login_resume)

\* ------------------------------------------------------------ awaited calls
\* The same service driven by a caller that awaits every call before it
\* makes the next one: each call runs from its start to its return with
\* nothing in between.  Principals of every resource type and every
\* permission array up to MaxPerms.
login(response) ==
  /\ pc = Idle
  /\ \E r \in {loginAfterFetch(this, response)} :
        IF r.returns = NoReturn
        THEN /\ \E s \in {loginAfterValidate(r.service, r.frame)} : Becomes(s)
             /\ returned' = LoginSuccess(r.frame)
        ELSE /\ Becomes(r.service)
             /\ returned' = r.returns
  /\ UNCHANGED <<pc, loginFrame, checkFrame>>

validateToken(response) ==
  /\ pc = Idle
  /\ UNCHANGED <<pc, loginFrame, checkFrame>>
  /\ IF ~Truthy(authToken)
     THEN /\ Becomes(this)
          /\ returned' = Returns("validateToken", FALSE)
     ELSE \E r \in {validateTokenAfterFetch(this, response)} :
            /\ Becomes(r.service)
            /\ returned' = Returns("validateToken", r.value)

refreshToken(response) ==
  /\ pc = Idle
  /\ UNCHANGED <<pc, loginFrame, checkFrame>>
  /\ IF ~Truthy(getItem(localStorage, STORAGE_REFRESH_KEY))
     THEN /\ Becomes(this)
          /\ returned' = Returns("refreshToken", FALSE)
     ELSE \E r \in {refreshTokenAfterFetch(this, response)} :
            /\ Becomes(r.service)
            /\ returned' = Returns("refreshToken", r.value)

logout ==
  /\ pc = Idle
  /\ UNCHANGED <<pc, loginFrame, checkFrame>>
  /\ Becomes(clearStorage(this))
  /\ returned' = LogoutReturns("none")

InitAwaited == Constructed(Storages(AllUsers))

NextAwaited ==
  \/ pageLoad
  \/ \E response \in LoginResponsesAll : login(response)
  \/ \E response \in ValidateResponses : validateToken(response)
  \/ \E response \in RefreshResponses : refreshToken(response)
  \/ logout

SpecAwaited == InitAwaited /\ [][NextAwaited]_vars

\* ------------------------------------------------------------ queries asked
\* The synchronous queries as functions of the fields they read: the
\* current principal is any AuthUser-shaped value, the token any value.
QueryUsers ==
  {NullUser}
    \cup {AuthUser(rt, auth, level, perms) :
            rt \in ResourceType \cup {Null}, auth \in BOOLEAN,
            level \in {0, Internal},
            perms \in {NoPerms, NotAList} \cup {PermArray(i) : i \in PermissionArrays}}
    \cup {AuthUser(rt, auth, level, NoPerms) :
            rt \in {Null, "User", "AgentWorkerService"}, auth \in BOOLEAN,
            level \in {0} \cup SecurityClearanceLevel}

QueryPermissions == PermissionPool \cup {"compute.read", "user.profile.edit"}

InitQueries ==
  /\ currentUser \in QueryUsers
  /\ authToken \in {Null, "token0"}
  /\ localStorage = EmptyStorage
  /\ console = {}
  /\ pc = Idle
  /\ loginFrame = NoFrame
  /\ checkFrame = NoCheck
  /\ returned = NoReturn

Answer(query, argument, value) ==
  /\ returned' = [call |-> query, argument |-> argument, value |-> value]
  /\ UNCHANGED <<currentUser, authToken, localStorage, console, pc, loginFrame,
               checkFrame>>

ask_isAuthenticated == Answer("isAuthenticated", Null, isAuthenticated(this))

ask_canAccessUI == Answer("canAccessUI", Null, canAccessUI(this))

ask_hasPermission(permission) ==
  /\ ~hasPermissionThrows(this)
  /\ Answer("hasPermission", permission, hasPermission(this, permission))

\* The permission strings the registry is asked about.
RegistryPermissions ==
  {"ui.dashboard.view", "dashboard.read", "tasks.execute", "compute.control",
   "compute.controller.view", "compute.provision", "compute.read",
   "user.profile.edit", "admin.user.profile.edit", "user.profile.view",
   "uix.view", "dashboard", "user.profile.editor"}

\* The private isPermissionRestrictedForResourceType as its callers apply
\* it, to a resource type and a permission string.
ask_isPermissionRestricted(resourceType, permission) ==
  /\ returned' = [call |-> "isPermissionRestrictedForResourceType",
                  resourceType |-> resourceType, permission |-> permission,
                  value |-> isPermissionRestrictedForResourceType(resourceType,
                                                                  permission)]
  /\ UNCHANGED <<currentUser, authToken, localStorage, console, pc, loginFrame,
                 checkFrame>>

ask_hasMinimumClearanceLevel(requiredLevel) ==
  /\ returned' = [call |-> "hasMinimumClearanceLevel",
                  requiredLevel |-> requiredLevel,
                  value |-> hasMinimumClearanceLevel(this, requiredLevel)]
  /\ UNCHANGED <<currentUser, authToken, localStorage, console, pc, loginFrame,
                 checkFrame>>

ask_getAuthHeader ==
  /\ returned' = [call |-> "getAuthHeader", header |-> getAuthHeader(this)]
  /\ UNCHANGED <<currentUser, authToken, localStorage, console, pc, loginFrame,
                 checkFrame>>

NextQueries ==
  \/ ask_isAuthenticated
  \/ ask_canAccessUI
  \/ \E permission \in QueryPermissions : ask_hasPermission(permission)
  \/ \E requiredLevel \in SecurityClearanceLevel :
       ask_hasMinimumClearanceLevel(requiredLevel)
  \/ ask_getAuthHeader

SpecQueries == InitQueries /\ [][NextQueries]_vars

\* The registry asked about every resource type and permission string; it
\* reads no field of the service.
InitRegistry ==
  /\ currentUser = NullUser
  /\ authToken = Null
  /\ localStorage = EmptyStorage
  /\ console = {}
  /\ pc = Idle
  /\ loginFrame = NoFrame
  /\ checkFrame = NoCheck
  /\ returned = NoReturn

NextRegistry ==
  \E resourceType \in ResourceType, permission \in RegistryPermissions :
    ask_isPermissionRestricted(resourceType, permission)

SpecRegistry == InitRegistry /\ [][NextRegistry]_vars

\* ------------------------------------------------------------ claims
SessionCleared ==
  /\ currentUser = NullUser
  /\ authToken = Null
  /\ localStorage = EmptyStorage

IsPermissionString(element) == element # NonString

\* The permission strings among the elements of an allowedPermissions value.
PermissionsOf(user) ==
  IF user # NullUser /\ IsArray(user.allowedPermissions)
  THEN {user.allowedPermissions.items[i] :
          i \in {j \in 1..Len(user.allowedPermissions.items) :
                   IsPermissionString(user.allowedPermissions.items[j])}}
  ELSE {}

\* C1: in every reachable state, no permission in the current principal's
\* allowedPermissions is restricted for its resourceType.
C1_NoRestrictedPermission ==
  \A permission \in PermissionsOf(currentUser) :
    ~isPermissionRestrictedForResourceType(currentUser.resourceType, permission)

\* C2: isAuthenticated() is true exactly when a principal is present, its
\* isAuthenticated flag is set and its resourceType is present.
C2_IsAuthenticated ==
  returned.call = "isAuthenticated" =>
    (returned.value <=> /\ currentUser # NullUser
                        /\ currentUser.isAuthenticated = TRUE
                        /\ currentUser.resourceType # Null)

\* C2 witness: a principal flagged authenticated, without resourceType, was
\* asked about and the answer was false.
C2_Witness ==
  /\ returned.call = "isAuthenticated"
  /\ currentUser # NullUser
  /\ currentUser.isAuthenticated
  /\ currentUser.resourceType = Null
  /\ returned.value = FALSE

\* C3: canAccessUI() is false without a principal, false for every
\* AgentWorkerService principal and true for every other resource type.
C3_CanAccessUI ==
  returned.call = "canAccessUI" =>
    /\ currentUser = NullUser => returned.value = FALSE
    /\ currentUser # NullUser /\ currentUser.resourceType = "AgentWorkerService"
         => returned.value = FALSE
    /\ currentUser # NullUser
         /\ currentUser.resourceType \in ResourceType \ {"AgentWorkerService"}
         => returned.value = TRUE

\* C3 witness: an AgentWorkerService principal that carries permissions and
\* a clearance was refused.
C3_Witness ==
  /\ returned.call = "canAccessUI"
  /\ currentUser # NullUser
  /\ currentUser.resourceType = "AgentWorkerService"
  /\ currentUser.clearanceLevel = Internal
  /\ PermissionsOf(currentUser) # {}
  /\ returned.value = FALSE

\* C4: hasPermission(p) is true exactly when p is in the current principal's
\* allowedPermissions and p is not restricted for its resourceType.
C4_HasPermission ==
  returned.call = "hasPermission" =>
    (returned.value <=>
       /\ returned.argument \in PermissionsOf(currentUser)
       /\ ~isPermissionRestrictedForResourceType(currentUser.resourceType,
                                                 returned.argument))

\* C4 witness: a DataSource principal that holds compute.control was asked
\* for it and the answer was false.
C4_Witness ==
  /\ returned.call = "hasPermission"
  /\ returned.argument = "compute.control"
  /\ currentUser # NullUser
  /\ currentUser.resourceType = "DataSource"
  /\ "compute.control" \in PermissionsOf(currentUser)
  /\ returned.value = FALSE

RECURSIVE WithoutRestricted(_, _)
\* `items` with every permission restricted for `resourceType` taken out.
WithoutRestricted(resourceType, items) ==
  IF items = <<>> THEN <<>>
  ELSE IF isPermissionRestrictedForResourceType(resourceType, Head(items))
  THEN WithoutRestricted(resourceType, Tail(items))
  ELSE <<Head(items)>> \o WithoutRestricted(resourceType, Tail(items))

RestrictedIn(user) ==
  {permission \in PermissionsOf(user) :
     isPermissionRestrictedForResourceType(user.resourceType, permission)}

\* C5: a successful login ends with the principal the response carried, its
\* allowedPermissions without exactly the restricted ones and otherwise in
\* order; that principal is current and persisted, and a pruning event was
\* logged when a permission was removed.
C5_LoginPrunes ==
  returned.call = "login" /\ returned.success =>
    /\ returned.user =
         [returned.received EXCEPT !.allowedPermissions =
            PermArray(WithoutRestricted(returned.received.resourceType,
                                        returned.received.allowedPermissions.items))]
    /\ currentUser = returned.user
    /\ getItem(localStorage, STORAGE_USER_KEY) = JSONstringify(returned.user)
    /\ RestrictedIn(returned.received) # {} =>
         \E event \in console :
           /\ event.type = "prunedPermissions"
           /\ event.resourceType = returned.received.resourceType
           /\ {event.permissions[i] : i \in 1..Len(event.permissions)}
                = RestrictedIn(returned.received)

\* C5 witness: the AgentWorkerService login of the scenario.
C5_Witness ==
  /\ returned.call = "login"
  /\ returned.success
  /\ returned.received.resourceType = "AgentWorkerService"
  /\ returned.received.allowedPermissions =
       PermArray(<<"ui.dashboard.view", "tasks.execute">>)
  /\ currentUser.allowedPermissions = PermArray(<<"tasks.execute">>)
  /\ console # {}

ReportsSuccessWithoutResourceType(response) ==
  /\ response.kind = "json"
  /\ response.ok /\ response.success /\ ~response.requiresMfa
  /\ response.user # NullUser /\ Truthy(response.token)
  /\ ~Truthy(response.user.resourceType)

ResponsesWithoutResourceType ==
  {response \in LoginResponsesFew : ReportsSuccessWithoutResourceType(response)}

\* C6: when the identity provider reports success with a user and a token
\* but the user has no resourceType, login returns the failure "missing
\* ResourceType" and the principal, the token and the storage stay as they
\* were.
C6_MissingResourceType ==
  [][\A response \in ResponsesWithoutResourceType :
       login_settle(response)
         => /\ returned' = LoginFailure(ErrMissingResourceType, FALSE)
            /\ pc'["login"] = "idle"
            /\ UNCHANGED <<currentUser, authToken, localStorage>>]_vars

\* C6 witness: login has returned that failure while a session was live.
C6_Witness ==
  /\ returned = LoginFailure(ErrMissingResourceType, FALSE)
  /\ currentUser # NullUser
  /\ Truthy(authToken)
  /\ HasEntry(localStorage, STORAGE_USER_KEY)

Restored == returned.call = "constructor"
RestoredToken == getItem(returned.found, STORAGE_TOKEN_KEY)
RestoredJson == getItem(returned.found, STORAGE_USER_KEY)
RestoredUser == JSONparse(RestoredJson)

\* C7: a restore that finds a token but no principal (no entry, or JSON
\* null) or a principal without resourceType clears the session entirely.
C7_RestoreWithoutPrincipalClears ==
  /\ Restored
  /\ Truthy(RestoredToken)
  /\ \/ RestoredJson = NoJson
     \/ RestoredJson = JSONstringify(NullUser)
     \/ RestoredJson.kind = "json" /\ RestoredUser # NullUser
          /\ ~Truthy(RestoredUser.resourceType)
  => SessionCleared

\* C8: a restore that finds a token and principal JSON that does not parse
\* leaves the service unauthenticated and the session cleared.
C8_RestoreUnparseableClears ==
  Restored /\ Truthy(RestoredToken) /\ RestoredJson = CorruptJson
    => ~isAuthenticated(this) /\ SessionCleared

\* C8 witness: the constructor has read such a storage, with a refresh
\* token in it.
C8_Witness ==
  /\ Restored
  /\ RestoredToken = "token0"
  /\ RestoredJson = CorruptJson
  /\ getItem(returned.found, STORAGE_REFRESH_KEY) = "refresh0"
  /\ SessionCleared

\* C9: a restore of a principal with restricted permissions leaves them
\* removed in memory and in the persisted snapshot, so that a second restore
\* prunes nothing; a restore of a principal with none writes nothing.
C9_RestoreSelfHealing ==
  /\ Restored
  /\ Truthy(RestoredToken)
  /\ RestoredJson.kind = "json"
  /\ RestoredUser # NullUser
  /\ Truthy(RestoredUser.resourceType)
  => IF RestrictedIn(RestoredUser) # {}
     THEN /\ currentUser # NullUser
          /\ RestrictedIn(currentUser) = {}
          /\ getItem(localStorage, STORAGE_USER_KEY) = JSONstringify(currentUser)
          /\ constructor(localStorage).localStorage = localStorage
          /\ constructor(localStorage).currentUser = currentUser
          /\ \A event \in constructor(localStorage).console :
               event.type # "prunedPermissions"
     ELSE localStorage = returned.found

\* C10: whenever refreshToken() returns false the session is cleared and
\* isAuthenticated() is false.
C10_FailedRefreshClears ==
  returned.call = "refreshToken" /\ returned.value = FALSE
    => SessionCleared /\ ~isAuthenticated(this)

\* C11: when logout returns - the remote call succeeded, answered with an
\* HTTP error, was rejected, or was not made for want of a token - the
\* principal and the token in memory are null and the three storage keys
\* are removed.
C11_LogoutClears ==
  returned.call = "logout" =>
    /\ returned.remote \in {"none", "ok", "httpError", "networkError"}
    /\ currentUser = NullUser
    /\ authToken = Null
    /\ \A key \in StorageKeys : ~HasEntry(localStorage, key)

\* logout has returned after its remote call was rejected, while a
\* refresh is still in flight.
C11_Witness ==
  /\ returned = LogoutReturns("networkError")
  /\ pc["refreshToken"] = "fetch"
  /\ SessionCleared

\* C12: a refresh that was in flight when a logout returned and cleared
\* the session does not resurrect it: when its response arrives it writes
\* no token into memory and none into the token and refresh-token keys.
C12_NoResurrection ==
  [][\A response \in RefreshResponses :
       (/\ returned.call = "logout"
        /\ SessionCleared
        /\ returned'.call = "refreshToken"
        /\ refreshToken_settle(response))
         => /\ authToken' = Null
            /\ ~HasEntry(localStorage', STORAGE_TOKEN_KEY)
            /\ ~HasEntry(localStorage', STORAGE_REFRESH_KEY)]_vars

NoPrincipal == currentUser = NullUser \/ ~Truthy(currentUser.resourceType)

SessionUnchanged == UNCHANGED <<currentUser, authToken, localStorage>>

\* C14: with no current principal, or one without resourceType, a call of
\* checkResourceTypeCompatibility returns at once, for every target type
\* and operation, isCompatible = false with the restriction 'No
\* authenticated user or ResourceType'; it does not go on to the fetch and
\* leaves the principal, the token and the storage as they were.
C14_NoPrincipalDenied ==
  [][\A targetResourceType \in TargetResourceTypes, operation \in Operations :
       (/\ NoPrincipal
        /\ returned'.call \in {"none", "checkResourceTypeCompatibility"}
        /\ checkResourceTypeCompatibility_call(targetResourceType, operation))
         => /\ returned' = CheckReturns([targetResourceType |-> targetResourceType,
                                         operation |-> operation], NoUserResult)
            /\ returned'.value.isCompatible = FALSE
            /\ returned'.value.restrictions = <<"No authenticated user or ResourceType">>
            /\ pc'["checkResourceTypeCompatibility"] = "idle"
            /\ SessionUnchanged]_vars

\* The check was denied for want of a principal, after a logout.
C14_Witness ==
  /\ returned.call = "checkResourceTypeCompatibility"
  /\ returned.value = NoUserResult
  /\ returned.targetResourceType = "ComputeResource"
  /\ returned.operation = "compute.provision"
  /\ currentUser = NullUser
  /\ pc["checkResourceTypeCompatibility"] = "idle"

\* The remote check could not be completed: fetch rejected, the body did
\* not parse, or the status was not OK (whatever the body says).
IncompleteCompatibilityResponses ==
  {response \in CompatibilityResponses :
     response.kind \in {"networkError", "bodyNotJson"}
       \/ (response.kind = "json" /\ ~response.ok)}

\* C15: when the remote compatibility check cannot be completed,
\* checkResourceTypeCompatibility returns isCompatible = false with
\* warnings ['Unable to validate ResourceType constraints'], whatever the
\* principal, target and operation, and leaves the session state unchanged.
C15_FailClosed ==
  [][\A response \in IncompleteCompatibilityResponses :
       (/\ returned'.call = "checkResourceTypeCompatibility"
        /\ checkResourceTypeCompatibility_settle(response))
         => /\ returned'.value.isCompatible = FALSE
            /\ returned'.value.warnings =
                 <<"Unable to validate ResourceType constraints">>
            /\ returned'.targetResourceType = checkFrame.targetResourceType
            /\ returned'.operation = checkFrame.operation
            /\ SessionUnchanged]_vars

\* A DataSource principal asked for compute.provision on ComputeResource
\* and the check failed closed.
C15_Witness ==
  /\ returned.call = "checkResourceTypeCompatibility"
  /\ returned.value = CheckFailedResult
  /\ returned.targetResourceType = "ComputeResource"
  /\ returned.operation = "compute.provision"
  /\ currentUser # NullUser
  /\ currentUser.resourceType = "DataSource"

\* C16: every checkResourceTypeCompatibility call that returns
\* isCompatible = false has emitted a security-monitoring event with the
\* source type, the target type, the operation and the restrictions it
\* returned.
C16_DenialEmitsEvent ==
  (returned.call = "checkResourceTypeCompatibility" /\ ~returned.value.isCompatible)
    => \E event \in console :
         /\ event.type = "compatibilityViolation"
         /\ event.source \in ResourceType
         /\ event.target = returned.targetResourceType
         /\ event.operation = returned.operation
         /\ event.restrictions = returned.value.restrictions

\* C13: every started call eventually completes, even if the external
\* service never responds: a call that awaits its fetch leads to that call
\* having returned, and a logout that awaits its fetch leads to the
\* cleared session.
C13_CallsComplete ==
  /\ \A call \in Calls : (pc[call] = "fetch") ~> (pc[call] = "idle")
  /\ (pc["logout"] = "fetch") ~> SessionCleared

\* The identity provider's failing outcomes: fetch rejected, a body that
\* does not parse, a status that is not OK, success false, no user or no
\* token.
FailingLoginResponses ==
  {response \in LoginResponsesFew :
     \/ response.kind # "json"
     \/ ~response.ok
     \/ ~response.success
     \/ response.user = NullUser
     \/ ~Truthy(response.token)}

\* C17: for every failing outcome of the identity provider login returns
\* success: false, and the principal and the token in memory and the three
\* storage keys are exactly what they were before.
C17_FailedLoginChangesNothing ==
  [][pc["login"] = "fetch" /\ pc'["login"] # "fetch" =>
       \A response \in FailingLoginResponses :
         login_settle(response)
           => /\ returned'.call = "login"
              /\ returned'.success = FALSE
              /\ pc'["login"] = "idle"
              /\ SessionUnchanged]_vars

\* A login failed for a response without a token while a session
\* existed, and the session is still there.
C17_Witness ==
  /\ returned.call = "login"
  /\ ~returned.success
  /\ returned.error = ErrInvalidResponse
  /\ isAuthenticated(this)
  /\ authToken = "token0"
  /\ HasEntry(localStorage, STORAGE_USER_KEY)

MfaResponses ==
  {response \in LoginResponsesFew : response.kind = "json" /\ response.requiresMfa}

OrdinaryLoginResponses == LoginResponsesFew \ MfaResponses

\* C18: when the login response requires MFA, login returns success: false
\* with requiresMfa: true, which no ordinary failure carries, and sets and
\* persists no principal and no token, even if the response carries both.
C18_MfaPending ==
  [][pc["login"] = "fetch" /\ pc'["login"] # "fetch" =>
       /\ \A response \in MfaResponses :
            login_settle(response)
              => /\ returned'.call = "login"
                 /\ returned'.success = FALSE
                 /\ returned'.requiresMfa = TRUE
                 /\ pc'["login"] = "idle"
                 /\ SessionUnchanged
       /\ \A response \in OrdinaryLoginResponses :
            (returned'.call = "login" /\ login_settle(response))
              => returned'.requiresMfa = FALSE]_vars

\* The response said ok, success and requiresMfa and carried a user and a
\* token; login returned the MFA state and nobody is signed in.
C18_Witness ==
  /\ returned = LoginFailure(Null, TRUE)
  /\ SessionCleared

\* C19: whenever login returns success: true, isAuthenticated() is true
\* when it returns.
C19_SuccessMeansAuthenticated ==
  (returned.call = "login" /\ returned.success) => isAuthenticated(this)

\* C20: for AgentWorkerService a permission is restricted exactly when it
\* starts with 'ui.' or with 'dashboard.' or is 'user.profile.edit'.
C20_AgentWorkerServiceRegistry ==
  (/\ returned.call = "isPermissionRestrictedForResourceType"
   /\ returned.resourceType = "AgentWorkerService")
    => (returned.value <=>
          \/ startsWith(Spelling(returned.permission), <<"ui", ".">>)
          \/ startsWith(Spelling(returned.permission), <<"dashboard", ".">>)
          \/ returned.permission = "user.profile.edit")

\* C21: for DataSource a permission is restricted exactly when it starts
\* with 'compute.control' or with 'compute.provision'; for User,
\* ComputeResource, Integration, Tool, Dashboard and Workflow no permission
\* is restricted.
C21_DataSourceRegistry ==
  returned.call = "isPermissionRestrictedForResourceType" =>
    /\ returned.resourceType = "DataSource" =>
         (returned.value <=>
            \/ startsWith(Spelling(returned.permission), <<"compute", ".", "control">>)
            \/ startsWith(Spelling(returned.permission), <<"compute", ".", "provision">>))
    /\ returned.resourceType \in
         {"User", "ComputeResource", "Integration", "Tool", "Dashboard", "Workflow"}
           => returned.value = FALSE

\* The registry was asked about a Workflow principal and a permission
\* that DataSource may not hold, and answered that it is not restricted.
C21_Witness ==
  /\ returned.call = "isPermissionRestrictedForResourceType"
  /\ returned.resourceType = "Workflow"
  /\ returned.permission = "compute.controller.view"
  /\ returned.value = FALSE

\* C22: hasMinimumClearanceLevel(required) is true exactly when there is a
\* current principal with a clearance level whose ordinal (Public=1,
\* Internal=2, Confidential=3, Restricted=4) is at least the required one;
\* with no principal or no clearance value it is false for every level.
C22_MinimumClearance ==
  returned.call = "hasMinimumClearanceLevel" =>
    /\ returned.value <=>
         /\ currentUser # NullUser
         /\ currentUser.clearanceLevel \in SecurityClearanceLevel
         /\ currentUser.clearanceLevel >= returned.requiredLevel
    /\ (currentUser = NullUser \/ currentUser.clearanceLevel = 0)
         => returned.value = FALSE
    /\ <<Public, Internal, Confidential, Restricted>> = <<1, 2, 3, 4>>

\* A Confidential principal was asked for Confidential and passed.
C22_Witness ==
  /\ returned.call = "hasMinimumClearanceLevel"
  /\ currentUser # NullUser
  /\ currentUser.clearanceLevel = Confidential
  /\ returned.requiredLevel = Confidential
  /\ returned.value = TRUE

\* C23: enforcement is idempotent: validateUserResourceTypeConstraints
\* applied again to the current principal, which login or the restore has
\* already enforced, leaves its allowedPermissions as they are, logs no
\* pruning and writes nothing to storage.
C23_EnforcementIdempotent ==
  (currentUser # NullUser /\ ~FilterThrows(currentUser)) =>
    \E again \in {validateUserResourceTypeConstraints(this, currentUser)} :
      /\ ~again.rejected
      /\ again.user = currentUser
      /\ again.user.allowedPermissions = currentUser.allowedPermissions
      /\ again.service.console = {}
      /\ again.service.localStorage = localStorage
      /\ again.service = this

\* login pruned two restricted permissions from an AgentWorkerService
\* principal, which is now current.
C23_Witness ==
  /\ returned.call = "login"
  /\ returned.success
  /\ returned.received.resourceType = "AgentWorkerService"
  /\ returned.received.allowedPermissions =
       PermArray(<<"ui.dashboard.view", "ui.dashboard.view">>)
  /\ currentUser # NullUser
  /\ currentUser.allowedPermissions = PermArray(<<>>)

IncompletePermissionResponses ==
  {response \in PermissionResponses :
     response.kind \in {"networkError", "bodyNotJson"}
       \/ (response.kind = "json" /\ ~response.ok)}

Blocks(result, permission) ==
  /\ result.isValid = FALSE
  /\ \E i \in 1..Len(result.blockedActions) : result.blockedActions[i] = permission

\* C24: validatePermissionForResourceType(permission) returns isValid:
\* false with the permission in blockedActions when there is no principal
\* or resourceType and when the permission is restricted for the
\* principal's resourceType - in both cases at once, without going on to
\* the remote service - and when the remote validation fails.
C24_ValidatePermissionDenies ==
  [][/\ pc["validatePermissionForResourceType"] = "idle" =>
          \A permission \in ValidatedPermissions :
            (/\ IF NoPrincipal THEN TRUE
                ELSE isPermissionRestrictedForResourceType(currentUser.resourceType,
                                                           permission)
             /\ returned'.call \in {"none", "validatePermissionForResourceType"}
             /\ validatePermissionForResourceType_call(permission))
              => /\ returned'.call = "validatePermissionForResourceType"
                 /\ returned'.permission = permission
                 /\ Blocks(returned'.value, permission)
                 /\ pc'["validatePermissionForResourceType"] = "idle"
     /\ pc["validatePermissionForResourceType"] = "fetch" =>
          \A response \in IncompletePermissionResponses :
            (/\ returned'.call = "validatePermissionForResourceType"
             /\ validatePermissionForResourceType_settle(response))
              => /\ returned'.permission = checkFrame.permission
                 /\ Blocks(returned'.value, checkFrame.permission)]_vars

\* An AgentWorkerService principal asked about a UI permission and was
\* refused locally.
C24_Witness ==
  /\ returned = PermissionReturns("ui.dashboard.view",
                   RestrictedValidation("AgentWorkerService", "ui.dashboard.view"))
  /\ currentUser # NullUser
  /\ currentUser.resourceType = "AgentWorkerService"
  /\ pc["validatePermissionForResourceType"] = "idle"

\* C25: while a principal stays current - no login succeeds, no restore
\* runs and the session is not cleared - its resourceType does not
\* change; and a successful refreshToken changes the access token, in
\* memory and in storage, and the stored refresh token if the response
\* carries one, and nothing of the principal in memory or in storage.
C25_PrincipalFrame ==
  [][/\ (/\ currentUser # NullUser
         /\ currentUser' # NullUser
         /\ returned'.call # "constructor"
         /\ ~(returned'.call = "login" /\ returned'.success))
          => /\ currentUser'.resourceType = currentUser.resourceType
             /\ currentUser' = currentUser
     /\ pc["refreshToken"] = "fetch" =>
          \A response \in RefreshResponses :
            (/\ returned'.call = "refreshToken"
             /\ returned'.value = TRUE
             /\ refreshToken_settle(response))
              => /\ currentUser' = currentUser
                 /\ getItem(localStorage', STORAGE_USER_KEY) =
                      getItem(localStorage, STORAGE_USER_KEY)
                 /\ authToken' = response.accessToken
                 /\ getItem(localStorage', STORAGE_TOKEN_KEY) = response.accessToken
                 /\ getItem(localStorage', STORAGE_REFRESH_KEY) =
                      IF Truthy(response.refreshToken) THEN response.refreshToken
                      ELSE getItem(localStorage, STORAGE_REFRESH_KEY)]_vars

\* A refresh succeeded for a signed-in principal: new token, same
\* principal in memory and in storage.
C25_Witness ==
  /\ returned.call = "refreshToken"
  /\ returned.value = TRUE
  /\ authToken = "tokenR"
  /\ isAuthenticated(this)
  /\ getItem(localStorage, STORAGE_USER_KEY) = JSONstringify(currentUser)
  /\ getItem(localStorage, STORAGE_REFRESH_KEY) = "refreshR"

\* C26: when enforcement faults on the restore of a malformed persisted
\* principal (its allowedPermissions is not a list, or holds an element
\* that is not a string), the session has been cleared: that principal is
\* not the current principal afterwards.
C26_FaultOnRestoreClears ==
  (/\ Restored
   /\ Truthy(RestoredToken)
   /\ RestoredJson.kind = "json"
   /\ RestoredUser # NullUser
   /\ Truthy(RestoredUser.resourceType)
   /\ FilterThrows(RestoredUser))
    => /\ currentUser = NullUser
       /\ authToken = Null
       /\ ~isAuthenticated(this)

\* C27: storage never pairs a principal snapshot with a token of another
\* session: when a step of login persists the snapshot of the principal
\* that is logging in, the token stored with it is the one that login's
\* response issued - not the previous session's token and not a null
\* token.
C27_TokenPrincipalPairing ==
  [][(/\ pc["login"] = "fetch"
      /\ pc'["login"] = "validated"
      /\ getItem(localStorage', STORAGE_USER_KEY) = JSONstringify(loginFrame'.user)
      /\ getItem(localStorage', STORAGE_USER_KEY) #
           getItem(localStorage, STORAGE_USER_KEY))
       => getItem(localStorage', STORAGE_TOKEN_KEY) = loginFrame'.token]_vars

\* C28: after a successful login the stored refresh token is the one the
\* login response carried, or absent if it carried none; the refresh
\* token of an earlier session is not kept.
C28_NoStaleRefreshToken ==
  (returned.call = "login" /\ returned.success)
    => getItem(localStorage, STORAGE_REFRESH_KEY) = returned.refreshToken

Denies(s) ==
  /\ \A permission \in RegistryPermissions : ~hasPermission(s, permission)
  /\ \A requiredLevel \in SecurityClearanceLevel :
       ~hasMinimumClearanceLevel(s, requiredLevel)
  /\ ~canAccessUI(s)
  /\ DOMAIN getAuthHeader(s) = {}

\* C29: whenever isAuthenticated() is false every authorization query
\* denies: hasPermission is false for every permission,
\* hasMinimumClearanceLevel is false for every level, canAccessUI is
\* false and getAuthHeader carries no Authorization token.
C29_UnauthenticatedDenied ==
  ~isAuthenticated(this) => Denies(this)

\* C30: a logout, a failing validateToken or a failing refreshToken that
\* was in flight when a login completed and established a session does
\* not clear that session when it completes.
C30_NoCrossSessionClearing ==
  [][(/\ returned.call = "login"
      /\ returned.success
      /\ returned'.call \in {"logout", "validateToken", "refreshToken"}
      /\ pc[returned'.call] = "fetch"
      /\ pc'[returned'.call] = "idle")
       => /\ currentUser' = currentUser
          /\ getItem(localStorage', STORAGE_USER_KEY) =
               getItem(localStorage, STORAGE_USER_KEY)
          /\ authToken' # Null]_vars
====
